---- MODULE Spec2Model ----
(***************************************************************************)
(* A model of data_preprocessing: DataTransformer (data_transformation.py) *)
(* and DataExtractor.fetch_api_data (data_extractor.py).                   *)
(*                                                                         *)
(* A DataFrame is a record [cols, n, data]: the ordered column names, the  *)
(* row count and, per column, the sequence of its cells.  A cell is a      *)
(* record [k, n, d]: a number n/d (k = "num", kept as an exact reduced     *)
(* fraction; float rounding is not modelled), NaN, None, +-inf, a date     *)
(* string (k = "str"), a parsed date (k = "date", n its day ordinal) or an *)
(* unparseable string (k = "bad").  The calendar columns year, month and   *)
(* week (lines 67-68 and 91) are functions of price_date alone and are     *)
(* left out of the frame.                                                  *)
(***************************************************************************)
EXTENDS Integers, Sequences, FiniteSets, TLC

VARIABLES
    df,          \* self.df of the transformer
    result,      \* what the last call on the transformer did
    df2,         \* self.df of a second transformer (a row permutation of df)
    result2,     \* what the last call on the second transformer did
    names,       \* self.df.columns in the column-name scenario
    applied,     \* how many times format_column_names_to_snake_case ran
    maxRetries,  \* fetch_api_data: the max_retries argument
    attempt,     \* fetch_api_data: the loop variable (next attempt)
    outcomes,    \* fetch_api_data: outcome of every request issued so far
    pc,          \* fetch_api_data: "idle", "loop", "returned", "raised"
    ret          \* fetch_api_data: the returned value

vars == <<df, result, df2, result2, names, applied,
          maxRetries, attempt, outcomes, pc, ret>>

----------------------------------------------------------------------------
(* Bounds *)

MaxRows == 2
MaxRollRows == 4
MaxPermRows == 2
MaxPrice == 1
MaxDate == 2
MaxNameLen == 3
MaxRetriesBound == 4
MaxApplied == 2

----------------------------------------------------------------------------
(* Cells *)

Num(i) == [k |-> "num", n |-> i, d |-> 1]
NaN == [k |-> "NaN", n |-> 0, d |-> 1]
None == [k |-> "None", n |-> 0, d |-> 1]
PosInf == [k |-> "inf", n |-> 1, d |-> 0]
NegInf == [k |-> "inf", n |-> -1, d |-> 0]
StrDate(i) == [k |-> "str", n |-> i, d |-> 1]
Date(i) == [k |-> "date", n |-> i, d |-> 1]
BadDate == [k |-> "bad", n |-> 0, d |-> 1]

IsNum(c) == c.k = "num"
IsNull(c) == c.k \in {"NaN", "None"}

Abs(i) == IF i < 0 THEN -i ELSE i

RECURSIVE GCD(_, _)
GCD(a, b) == IF b = 0 THEN a ELSE GCD(b, a % b)

\* the number a/b (b # 0) as a reduced fraction with a positive denominator
Rat(a, b) ==
    LET g == GCD(Abs(a), Abs(b))
        s == IF b < 0 THEN -1 ELSE 1
    IN  [k |-> "num", n |-> (s * a) \div g, d |-> Abs(b) \div g]

\* float subtraction x - y; NaN when either operand is null
Sub(x, y) ==
    IF IsNum(x) /\ IsNum(y) THEN Rat(x.n * y.d - y.n * x.d, x.d * y.d) ELSE NaN

\* float division x / y as numpy does it: x/0 is +-inf, 0/0 is NaN
Div(x, y) ==
    IF ~(IsNum(x) /\ IsNum(y)) THEN NaN
    ELSE IF y.n = 0 THEN (IF x.n > 0 THEN PosInf ELSE IF x.n < 0 THEN NegInf ELSE NaN)
    ELSE Rat(x.n * y.d, x.d * y.n)

\* x * 100 and x - 1 on floats; inf stays inf
Times100(x) == IF IsNum(x) THEN Rat(x.n * 100, x.d) ELSE x
MinusOne(x) == IF IsNum(x) THEN Rat(x.n - x.d, x.d) ELSE x

\* x > 0 on a float cell; False for NaN
GtZero(x) == (x.k = "num" /\ x.n > 0) \/ (x = PosInf)

----------------------------------------------------------------------------
(* DataFrames *)

EmptyFrame == [cols |-> <<>>, n |-> 0, data |-> <<>>]

SeqToSet(s) == {s[i] : i \in DOMAIN s}
HasCol(t, c) == c \in SeqToSet(t.cols)

\* df[c] = series: overwrite an existing column, append a new one
SetCol(t, c, series) ==
    [cols |-> IF HasCol(t, c) THEN t.cols ELSE Append(t.cols, c),
     n |-> t.n,
     data |-> [x \in SeqToSet(t.cols) \cup {c} |-> IF x = c THEN series ELSE t.data[x]]]

Fuels == <<"ron95", "ron97", "diesel">>
FuelSet == SeqToSet(Fuels)
PriceCol(f) == f \o "_price"
DerivedCol(f, suffix) == f \o suffix

\* the column names a frame handed to the transformer may carry
SourceCols == <<"date", "ron95", "ron97", "diesel">>

----------------------------------------------------------------------------
(* transform_fuel_data, step by step *)

ColumnMapping ==
    [ron95 |-> "ron95_price", ron97 |-> "ron97_price",
     diesel |-> "diesel_price", date |-> "price_date"]

RenameOne(c) == IF c \in DOMAIN ColumnMapping THEN ColumnMapping[c] ELSE c

\* df.rename(columns=column_mapping): names absent from the frame are skipped
Rename(t) ==
    LET newcols == [i \in DOMAIN t.cols |-> RenameOne(t.cols[i])]
    IN  [cols |-> newcols, n |-> t.n,
         data |-> [x \in SeqToSet(newcols) |->
                     t.data[CHOOSE c \in SeqToSet(t.cols) : RenameOne(c) = x]]]

\* Mutant of Working: the rename done in place on self.df, no copy taken
WorkingInPlace(t) == [caller |-> Rename(t), work |-> Rename(t), aliased |-> TRUE]

\* The frames in play while lines 35-47 run: the caller's (self.df), the
\* local df, and whether the two are one object (an in-place write to df
\* then shows in self.df).  self.df.copy() and rename() each build a new
\* object.
Working(t) == [caller |-> t, work |-> Rename(t), aliased |-> FALSE]

\* pd.to_datetime on one cell
ToDatetime(c) == IF c.k = "str" THEN Date(c.n) ELSE c

\* what line 47 raises: no price_date column, or a value that does not parse
DateError(w) ==
    IF ~HasCol(w.work, "price_date") THEN "KeyError"
    ELSE IF \E i \in 1..w.work.n : w.work.data["price_date"][i].k = "bad"
         THEN "ValueError"
    ELSE ""

\* df['price_date'] = pd.to_datetime(df['price_date']): an in-place write
ParseDates(w) ==
    LET parsed == [i \in 1..w.work.n |-> ToDatetime(w.work.data["price_date"][i])]
        written == SetCol(w.work, "price_date", parsed)
    IN  [caller |-> IF w.aliased THEN written ELSE w.caller,
         work |-> written, aliased |-> w.aliased]

Perms(n) == {p \in [1..n -> 1..n] : \A i, j \in 1..n : i # j => p[i] # p[j]}

\* the frame with row i taken from row p[i]
Reindex(t, p) ==
    [cols |-> t.cols, n |-> t.n,
     data |-> [c \in DOMAIN t.data |-> [i \in 1..t.n |-> t.data[c][p[i]]]]]

\* Mutant of SortByDate: the sort left out
NoSort(t) == t

\* the place row i takes in an ascending sort of the dates d that keeps rows
\* of equal date in their input order
SortedPlace(d, i) ==
    Cardinality({j \in 1..Len(d) : d[j].n < d[i].n})
    + Cardinality({j \in 1..(i - 1) : d[j].n = d[i].n}) + 1

\* sort_values('price_date').reset_index(drop=True).  The default kind is
\* numpy's quicksort, which sorts runs of up to 16 elements by insertion:
\* on frames of the sizes checked here rows of equal date keep their input
\* order.
SortByDate(t) ==
    LET d == t.data["price_date"]
    IN  Reindex(t, [k \in 1..t.n |-> CHOOSE i \in 1..t.n : SortedPlace(d, i) = k])

\* df.fillna(np.nan).replace({np.nan: None}): every NaN becomes None (and a
\* float column holding one becomes an object column)
NullPass(t) ==
    [cols |-> t.cols, n |-> t.n,
     data |-> [c \in DOMAIN t.data |->
                 [i \in 1..t.n |-> IF t.data[c][i].k = "NaN" THEN None ELSE t.data[c][i]]]]

\* Series.diff() subtracts the raw arrays: on an object column a None
\* operand raises TypeError
DiffRaises(s) == \E i \in 2..Len(s) : s[i].k = "None" \/ s[i - 1].k = "None"

Diff(s) == [i \in 1..Len(s) |-> IF i = 1 THEN NaN ELSE Sub(s[i], s[i - 1])]

Add(x, y) ==
    IF IsNum(x) /\ IsNum(y) THEN Rat(x.n * y.d + y.n * x.d, x.d * y.d) ELSE NaN

\* Mutant of Rolling4Mean: min_periods=1, the mean of the values the window has
RollingMinPeriods1(s) ==
    [i \in 1..Len(s) |->
        LET win == {j \in 1..i : j >= i - 3 /\ IsNum(s[j])}
        IN  IF win = {} THEN NaN
            ELSE Rat(s[i].n + (IF i - 1 \in win THEN s[i - 1].n ELSE 0)
                            + (IF i - 2 \in win THEN s[i - 2].n ELSE 0)
                            + (IF i - 3 \in win THEN s[i - 3].n ELSE 0),
                     Cardinality(win))]

\* rolling(window=4).mean(): min_periods is the window, so NaN unless the
\* row and the three before it all hold numbers
Rolling4Mean(s) ==
    [i \in 1..Len(s) |->
        IF i >= 4 /\ \A j \in (i - 3)..i : IsNum(s[j])
        THEN LET sum == Add(Add(s[i - 3], s[i - 2]), Add(s[i - 1], s[i]))
             IN  Rat(sum.n, sum.d * 4)
        ELSE NaN]

\* df[price] - start_price[price]; a None operand gives NaN (masked op)
CumulativeChange(s) == [i \in 1..Len(s) |-> Sub(s[i], s[1])]

\* (week_diff > 0).astype(int)
PriceIncrease(wd) == [i \in 1..Len(wd) |-> IF GtZero(wd[i]) THEN Num(1) ELSE Num(0)]

\* pct_change() * 100: price / previous price - 1, times 100.  The call is
\* reached only with a column free of nulls or a one-row column (see
\* DiffRaises), where pct_change's forward fill changes nothing.
PctChange(s) ==
    [i \in 1..Len(s) |->
        IF i = 1 THEN NaN ELSE Times100(MinusOne(Div(s[i], s[i - 1])))]

\* Mutant of BaselineMissing: no baseline lookup that can fail
BaselineNeverMissing(t) == FALSE

\* df.iloc[0] on a frame without rows raises IndexError
BaselineMissing(t) == t.n = 0

\* Lines 56-58: the first fuel whose diff raises, and what it raises
RECURSIVE DiffError(_, _)
DiffError(t, i) ==
    IF i > Len(Fuels) THEN ""
    ELSE IF ~HasCol(t, PriceCol(Fuels[i])) THEN "KeyError"
    ELSE IF DiffRaises(t.data[PriceCol(Fuels[i])]) THEN "TypeError"
    ELSE DiffError(t, i + 1)

\* the column operation a loop over the fuels applies
SeriesOp(op, s) ==
    CASE op = "diff" -> Diff(s)
      [] op = "rolling" -> Rolling4Mean(s)
      [] op = "cumulative" -> CumulativeChange(s)
      [] op = "increase" -> PriceIncrease(s)
      [] op = "pct_change" -> PctChange(s)

\* for fuel in ['ron95', 'ron97', 'diesel']: df[fuel + suffix] = op(df[fuel + source])
PerFuel(t, op, source, suffix) ==
    LET col(k, u) == SetCol(u, DerivedCol(Fuels[k], suffix),
                            SeriesOp(op, u.data[DerivedCol(Fuels[k], source)]))
    IN  col(3, col(2, col(1, t)))

Result(op, kind, error, table) ==
    [op |-> op, kind |-> kind, error |-> error, table |-> table]

NoResult == Result("none", "none", "", EmptyFrame)

\* Lines 53-93 on the sorted frame: the returned frame, or the exception.
\* Nothing is returned when a step raises.
Derive(sorted) ==
    LET t0 == NullPass(sorted)
    IN  IF DiffError(t0, 1) # ""
          THEN Result("transform", "error", DiffError(t0, 1), EmptyFrame)
        ELSE LET t1 == PerFuel(t0, "diff", "_price", "_week_diff")
                 t2 == PerFuel(t1, "rolling", "_price", "_4wk_avg")
             IN  IF BaselineMissing(t2)
                   THEN Result("transform", "error", "IndexError", EmptyFrame)
                 ELSE LET t3 == PerFuel(t2, "cumulative", "_price", "_cumulative_change")
                          t4 == PerFuel(t3, "increase", "_week_diff", "_price_increase")
                          t5 == PerFuel(t4, "pct_change", "_price", "_pct_change")
                      IN  Result("transform", "ok", "", NullPass(t5))

\* transform_fuel_data on self.df = t: [self, result], self being self.df
\* when the call ends and result what it returned or raised.
TransformFuel(t) ==
    LET w == Working(t)
    IN  IF DateError(w) # ""
          THEN [self |-> w.caller,
                result |-> Result("transform", "error", DateError(w), EmptyFrame)]
        ELSE LET w1 == ParseDates(w)
             IN  [self |-> w1.caller, result |-> Derive(SortByDate(w1.work))]

----------------------------------------------------------------------------
(* fill_missing_numeric *)

\* select_dtypes(include=['int64', 'float64']): the fuel columns hold floats,
\* the date column holds strings
NumericCols(t) ==
    {c \in SeqToSet(t.cols) : \A i \in 1..t.n : t.data[c][i].k \in {"num", "NaN"}}

NonNull(s) == {i \in 1..Len(s) : IsNum(s[i])}

Less(x, y) == x.n * y.d < y.n * x.d

\* Series.median(): the middle of the non-null values in ascending order, the
\* mean of the two middle ones when their count is even; NaN when there is none
Median(s) ==
    LET idx == NonNull(s)
        m == Cardinality(idx)
        \* the value with exactly r values before it in ascending order
        rank(r) == CHOOSE i \in idx :
                     /\ Cardinality({j \in idx : Less(s[j], s[i])}) <= r
                     /\ Cardinality({j \in idx : ~Less(s[i], s[j])}) > r
    IN  IF m = 0 THEN NaN
        ELSE IF m % 2 = 1 THEN s[rank(m \div 2)]
        ELSE LET sum == Add(s[rank(m \div 2 - 1)], s[rank(m \div 2)])
             IN  Rat(sum.n, sum.d * 2)

\* Series.fillna(value): a new series, the nulls replaced
Fillna(s, value) == [i \in 1..Len(s) |-> IF IsNull(s[i]) THEN value ELSE s[i]]

\* Lines 106-110: for each numeric column the filled series is computed and
\* dropped (fillna is neither in place nor assigned back); self.df is returned.
FillMissingNumericFrame(t) ==
    LET dropped == [c \in NumericCols(t) |-> Fillna(t.data[c], Median(t.data[c]))]
    IN  t

----------------------------------------------------------------------------
(* format_column_names_to_snake_case: a name is a sequence of characters *)

UpperChars == <<"A", "B", "C", "D", "E", "F", "G", "H", "I", "J", "K", "L", "M",
                "N", "O", "P", "Q", "R", "S", "T", "U", "V", "W", "X", "Y", "Z">>
LowerChars == <<"a", "b", "c", "d", "e", "f", "g", "h", "i", "j", "k", "l", "m",
                "n", "o", "p", "q", "r", "s", "t", "u", "v", "w", "x", "y", "z">>
DigitChars == {"0", "1", "2", "3", "4", "5", "6", "7", "8", "9"}

IsUpper(c) == c \in SeqToSet(UpperChars)
IsLower(c) == c \in SeqToSet(LowerChars)
IsDigit(c) == c \in DigitChars
\* the regex class \s
IsSpace(c) == c \in {" ", "\t", "\n", "\r"}

\* str.lower()
LowerChar(c) ==
    IF IsUpper(c) THEN LowerChars[CHOOSE i \in DOMAIN UpperChars : UpperChars[i] = c]
    ELSE c
Lower(s) == [i \in DOMAIN s |-> LowerChar(s[i])]

\* re.sub(r'\s+', '_', c): each maximal run of whitespace becomes one "_"
RECURSIVE SubSpaces(_, _)
SubSpaces(s, i) ==
    IF i > Len(s) THEN <<>>
    ELSE IF IsSpace(s[i])
         THEN IF i > 1 /\ IsSpace(s[i - 1]) THEN SubSpaces(s, i + 1)
              ELSE <<"_">> \o SubSpaces(s, i + 1)
    ELSE <<s[i]>> \o SubSpaces(s, i + 1)

\* re.sub(r'([a-z])([A-Z])', r'\1_\2', c), and with digits the same for
\* r'([a-z0-9])([A-Z])': matches are found left to right and do not overlap
RECURSIVE SubCamel(_, _, _)
SubCamel(s, i, digits) ==
    IF i > Len(s) THEN <<>>
    ELSE IF /\ i < Len(s)
            /\ (IsLower(s[i]) \/ (digits /\ IsDigit(s[i])))
            /\ IsUpper(s[i + 1])
         THEN <<s[i], "_", s[i + 1]>> \o SubCamel(s, i + 2, digits)
    ELSE <<s[i]>> \o SubCamel(s, i + 1, digits)

\* re.sub(r'\.', '', c)
StripPeriods(s) == SelectSeq(s, LAMBDA c : c # ".")

\* Mutant of SpaceBranch: .lower() applied to the else branch alone
SpaceBranchNoLower(c) == SubSpaces(c, 1)

\* the ' ' in c branch of the comprehension
SpaceBranch(c) == Lower(SubSpaces(c, 1))

\* the else branch
CamelBranch(c) == Lower(SubCamel(SubCamel(c, 1, FALSE), 1, TRUE))

SnakeCase(c) ==
    StripPeriods(IF " " \in SeqToSet(c) THEN SpaceBranch(c) ELSE CamelBranch(c))

\* self.df.columns = [... for c in self.df.columns]
FormatColumnNames(cs) == [i \in DOMAIN cs |-> SnakeCase(cs[i])]

----------------------------------------------------------------------------
(* fetch_api_data *)

\* Mutant of InRange: range(max_retries + 1)
InRangeInclusive(a, m) == a <= m

\* range(max_retries): is there an attempt numbered a
InRange(a, m) == a < m

\* if attempt == max_retries - 1
LastAttempt(a, m) == a = m - 1

Payloads == {"payload1", "payload2"}
\* requests.get raising, or raise_for_status raising: both RequestException
RequestErrors == {"ConnectionError", "HTTPError"}
NoneValue == "None"

----------------------------------------------------------------------------
(* The frames a transformer is built with *)

PriceVals == {NaN} \cup {Num(i) : i \in 0..MaxPrice}
DateVals == {StrDate(i) : i \in 1..MaxDate}

\* SourceCols restricted to the names in S, in order
ColsOf(S) == SelectSeq(SourceCols, LAMBDA c : c \in S)

\* date columns of n rows: parseable dates in any order, with or without an
\* unparseable first cell
DateSeries(n) ==
    [1..n -> DateVals]
    \cup {[i \in 1..n |-> IF i = 1 THEN BadDate ELSE d[i]] : d \in [2..n -> DateVals]}

Frame(S, n, dates, prices) ==
    [cols |-> ColsOf(S), n |-> n,
     data |-> [c \in S |-> CASE c = "date" -> dates
                             [] c = "ron95" -> prices
                             [] OTHER -> [i \in 1..n |-> Num(1)]]]

\* the date columns and the ron95 columns a frame of n rows over S may hold
DatesFor(S, n) == IF "date" \in S THEN DateSeries(n) ELSE {<<>>}
PricesFor(S, n) == IF "ron95" \in S THEN [1..n -> PriceVals] ELSE {<<>>}

\* t is a frame of up to MaxRows rows over any subset of the source columns
\* (none: pd.DataFrame(), the constructor's default): ron95 carries the
\* prices that vary, ron97 and diesel (handled by the same loops) a constant
\* price.
IsInputFrame(t) ==
    \/ t = EmptyFrame
    \/ \E S \in (SUBSET SeqToSet(SourceCols)) \ {{}} : \E n \in 0..MaxRows :
          \E d \in DatesFor(S, n) : \E q \in PricesFor(S, n) : t = Frame(S, n, d, q)

\* the orders the rows of a frame of n rows at the dates 1..n come in: the
\* ascending and the descending order, each rotated by r places
RowOrders(n) ==
    {[i \in 1..n |-> ((i - 1 + r) % n) + 1] : r \in 0..(n - 1)}
    \cup {[i \in 1..n |-> n - ((i - 1 + r) % n)] : r \in 0..(n - 1)}

\* t has every source column and up to MaxRollRows rows, at distinct dates
IsRollFrame(t) ==
    \E n \in 0..MaxRollRows : \E p \in RowOrders(n) : \E q \in [1..n -> PriceVals] :
        t = Frame(SeqToSet(SourceCols), n, [i \in 1..n |-> StrDate(p[i])], q)

\* t has every source column and up to MaxPermRows rows; dates may repeat
IsPermFrame(t) ==
    \E n \in 0..MaxPermRows : \E d \in [1..n -> DateVals] : \E q \in [1..n -> PriceVals] :
        t = Frame(SeqToSet(SourceCols), n, d, q)

----------------------------------------------------------------------------
(* Specification of one transformer *)

IdleNames == names = <<>> /\ applied = 0
IdleFetch ==
    maxRetries = 0 /\ attempt = 0 /\ outcomes = <<>> /\ pc = "idle" /\ ret = NoneValue
IdleSecond == df2 = EmptyFrame /\ result2 = NoResult

Init ==
    /\ IsInputFrame(df)
    /\ result = NoResult
    /\ IdleSecond /\ IdleNames /\ IdleFetch

TransformFuelData ==
    /\ df' = TransformFuel(df).self
    /\ result' = TransformFuel(df).result
    /\ UNCHANGED <<df2, result2, names, applied, maxRetries, attempt, outcomes, pc, ret>>

FillMissingNumeric ==
    /\ df' = FillMissingNumericFrame(df)
    /\ result' = Result("fill_missing_numeric", "ok", "", df')
    /\ UNCHANGED <<df2, result2, names, applied, maxRetries, attempt, outcomes, pc, ret>>

Next == TransformFuelData \/ FillMissingNumeric

Spec == Init /\ [][Next]_vars

----------------------------------------------------------------------------
(* Specification of the rolling average: frames long enough for a window *)

InitRoll ==
    /\ IsRollFrame(df)
    /\ result = NoResult
    /\ IdleSecond /\ IdleNames /\ IdleFetch

NextRoll == TransformFuelData

SpecRoll == InitRoll /\ [][NextRoll]_vars

----------------------------------------------------------------------------
(* Specification of two transformers, the second built with a row          *)
(* permutation of the first one's frame                                    *)

InitPerm ==
    /\ IsPermFrame(df)
    /\ \E p \in Perms(df.n) : df2 = Reindex(df, p)
    /\ result = NoResult /\ result2 = NoResult
    /\ IdleNames /\ IdleFetch

TransformFuelData2 ==
    /\ df2' = TransformFuel(df2).self
    /\ result2' = TransformFuel(df2).result
    /\ UNCHANGED <<df, result, names, applied, maxRetries, attempt, outcomes, pc, ret>>

NextPerm == TransformFuelData \/ TransformFuelData2

SpecPerm == InitPerm /\ [][NextPerm]_vars

----------------------------------------------------------------------------
(* Specification of column-name formatting *)

NameChars == {"a", "B", "1", " ", "\t", ".", "_"}

\* the names the spec's scenario gives: "Retail Price" and "ron95Price"
RetailPrice == <<"R", "e", "t", "a", "i", "l", " ", "P", "r", "i", "c", "e">>
Ron95Price == <<"r", "o", "n", "9", "5", "P", "r", "i", "c", "e">>

InitNames ==
    /\ \E n \in 1..MaxNameLen : \E c \in [1..n -> NameChars] :
          names = <<c, RetailPrice, Ron95Price>>
    /\ applied = 0
    /\ df = EmptyFrame /\ result = NoResult
    /\ IdleSecond /\ IdleFetch

FormatColumnNamesToSnakeCase ==
    /\ applied < MaxApplied
    /\ names' = FormatColumnNames(names)
    /\ applied' = applied + 1
    /\ UNCHANGED <<df, result, df2, result2, maxRetries, attempt, outcomes, pc, ret>>

NextNames == FormatColumnNamesToSnakeCase

SpecNames == InitNames /\ [][NextNames]_vars

----------------------------------------------------------------------------
(* Specification of fetch_api_data: one step per request *)

InitFetch ==
    /\ maxRetries \in 0..MaxRetriesBound
    /\ attempt = 0 /\ outcomes = <<>> /\ pc = "loop" /\ ret = NoneValue
    /\ df = EmptyFrame /\ result = NoResult
    /\ IdleSecond /\ IdleNames

\* requests.get and raise_for_status succeed: return response.json()
RequestSucceeds ==
    /\ pc = "loop" /\ InRange(attempt, maxRetries)
    /\ \E p \in Payloads :
          /\ outcomes' = Append(outcomes, p)
          /\ ret' = p
    /\ pc' = "returned"
    /\ UNCHANGED <<df, result, df2, result2, names, applied, maxRetries, attempt>>

\* a RequestException is caught: return None on the last attempt, else loop
RequestFails ==
    /\ pc = "loop" /\ InRange(attempt, maxRetries)
    /\ \E e \in RequestErrors : outcomes' = Append(outcomes, e)
    /\ IF LastAttempt(attempt, maxRetries)
         THEN pc' = "returned" /\ ret' = NoneValue /\ attempt' = attempt
         ELSE pc' = "loop" /\ ret' = ret /\ attempt' = attempt + 1
    /\ UNCHANGED <<df, result, df2, result2, names, applied, maxRetries>>

\* any other exception is not caught and leaves the function
RequestRaises ==
    /\ pc = "loop" /\ InRange(attempt, maxRetries)
    /\ outcomes' = Append(outcomes, "OtherException")
    /\ pc' = "raised"
    /\ UNCHANGED <<df, result, df2, result2, names, applied, maxRetries, attempt, ret>>

\* the for loop runs out (range(max_retries) is empty): the function ends
\* without a return statement, which returns None
LoopEnds ==
    /\ pc = "loop" /\ ~InRange(attempt, maxRetries)
    /\ pc' = "returned" /\ ret' = NoneValue
    /\ UNCHANGED <<df, result, df2, result2, names, applied, maxRetries, attempt, outcomes>>

NextFetch == RequestSucceeds \/ RequestFails \/ RequestRaises \/ LoopEnds

SpecFetch == InitFetch /\ [][NextFetch]_vars

----------------------------------------------------------------------------
(* Properties *)

Transformed == result.op = "transform"
Returned == Transformed /\ result.kind = "ok"
Out == result.table

AllSourceCols(t) == SeqToSet(t.cols) = SeqToSet(SourceCols)
GoodDates(t) == HasCol(t, "date") /\ \A i \in 1..t.n : t.data["date"][i].k = "str"
HasNullPrice(t) == HasCol(t, "ron95") /\ \E i \in 1..t.n : IsNull(t.data["ron95"][i])
DistinctDates(t) ==
    \A i, j \in 1..t.n : i # j => t.data["date"][i] # t.data["date"][j]

DerivedSuffixes ==
    {"_week_diff", "_4wk_avg", "_cumulative_change", "_price_increase", "_pct_change"}

\* C1 as stated: transform_fuel_data on a frame and on any row permutation of
\* it end the same way, with identical output tables, also when rows share a
\* date.
C1_OrderInvarianceAnyDates ==
    (Transformed /\ result2.op = "transform") => result = result2

\* C1 as amended: when the dates of the frame are pairwise distinct,
\* transform_fuel_data on the frame and on any row permutation of it end the
\* same way: the same error, or identical output tables.
C1_OrderInvarianceDistinctDates ==
    (Transformed /\ result2.op = "transform" /\ DistinctDates(df)) => result = result2

C1_Witness ==
    /\ Returned /\ result2.op = "transform"
    /\ df.n = 2 /\ DistinctDates(df) /\ df2 # df
    /\ Out.data["ron95_week_diff"][2] # Num(0)

\* C2: a call of transform_fuel_data, whether it returns or raises, leaves
\* self.df as it was: same columns, same row order, same cells.
C2_SelfDfUnchanged == [][result'.op = "transform" => df' = df]_vars

C2_Witness ==
    /\ Returned /\ df.n = 2
    /\ HasCol(df, "date") /\ ~HasCol(df, "price_date")
    /\ Out.data["price_date"][1].n # df.data["date"][1].n

\* what C3 says new, the frame after fill_missing_numeric, is given the frame
\* old before it
FilledWithMedian(old, new) ==
    /\ new.cols = old.cols /\ new.n = old.n
    /\ \A c \in SeqToSet(old.cols) : \A i \in 1..old.n :
          new.data[c][i] =
             IF c \in NumericCols(old) /\ IsNull(old.data[c][i]) /\ NonNull(old.data[c]) # {}
               THEN Median(old.data[c])
               ELSE old.data[c][i]

\* C3: after fill_missing_numeric every null cell of a numeric column with a
\* non-null value holds the column's median, every other cell is unchanged,
\* in self.df and in the returned frame alike.
C3_NullsFilledWithMedian ==
    [][result'.op = "fill_missing_numeric"
         => FilledWithMedian(df, df') /\ result'.table = df']_vars

\* C4: on a frame with a date column, at least one row and a fuel column
\* missing, transform_fuel_data returns a table that has the five derived
\* columns of each fuel present and none of an absent fuel.  (Stated for
\* frames whose dates parse and whose prices are not null.)
C4_MissingFuelTolerated ==
    (/\ Transformed /\ GoodDates(df) /\ df.n >= 1 /\ ~HasNullPrice(df)
     /\ \E f \in FuelSet : ~HasCol(df, f))
    => /\ result.kind = "ok"
       /\ \A f \in FuelSet : \A x \in DerivedSuffixes :
             HasCol(Out, DerivedCol(f, x)) <=> HasCol(df, f)

\* the percentage change C5 gives row i of the price column p
ClaimedPct(p, i) ==
    IF i = 1 \/ IsNull(p[i - 1]) \/ p[i - 1].n = 0 \/ IsNull(p[i])
      THEN None
      ELSE Rat((p[i].n * p[i - 1].d - p[i - 1].n * p[i].d) * 100 * p[i - 1].d,
               p[i].d * p[i - 1].d * p[i - 1].n)

\* C5: in the output, pct_change[i] is null in row 0, after a null or zero
\* price and at a null price, and (price[i] - price[i-1]) / price[i-1] * 100
\* otherwise; a zero previous price never gives an infinite value.
C5_PctChangeNullOrRatio ==
    Returned =>
        \A f \in FuelSet : \A i \in 1..Out.n :
            Out.data[DerivedCol(f, "_pct_change")][i] = ClaimedPct(Out.data[PriceCol(f)], i)

\* the null propagation C6 states for fuel f of the output table t
NullsPropagate(t, f) ==
    \A i \in 1..t.n :
        IsNull(t.data[PriceCol(f)][i]) =>
            /\ IsNull(t.data[DerivedCol(f, "_week_diff")][i])
            /\ IsNull(t.data[DerivedCol(f, "_cumulative_change")][i])
            /\ IsNull(t.data[DerivedCol(f, "_pct_change")][i])
            /\ \A j \in i..(i + 3) : j <= t.n => IsNull(t.data[DerivedCol(f, "_4wk_avg")][j])
            /\ i < t.n => IsNull(t.data[DerivedCol(f, "_week_diff")][i + 1])

\* C6: on a frame with a null fuel price transform_fuel_data returns a table,
\* and in it the derived columns are null wherever the price they rest on is.
\* (Stated for frames with every source column, at least one row and dates
\* that parse.)
C6_NullPriceReturnsNulls ==
    (Transformed /\ AllSourceCols(df) /\ GoodDates(df) /\ df.n >= 1 /\ HasNullPrice(df))
    => /\ result.kind = "ok"
       /\ \A f \in FuelSet : NullsPropagate(Out, f)

\* C7 as stated: on a frame without rows transform_fuel_data fails with the
\* error kind EmptyInputError and returns nothing.
C7_FailsWithEmptyInputError ==
    (Transformed /\ df.n = 0)
    => result.kind = "error" /\ result.error = "EmptyInputError" /\ Out = EmptyFrame

\* C7 as amended: on a frame without rows transform_fuel_data fails and
\* returns nothing: with IndexError, from the lookup of the baseline row, when
\* the frame has the date and the three fuel columns, with KeyError when one
\* of them is missing.
C7_FailsOnEmptyFrame ==
    (Transformed /\ df.n = 0)
    => /\ result.kind = "error" /\ Out = EmptyFrame
       /\ result.error = IF AllSourceCols(df) THEN "IndexError" ELSE "KeyError"

C7_Witness ==
    Transformed /\ df.n = 0 /\ AllSourceCols(df) /\ result.error = "IndexError"

\* the four-row average C8 gives row i of the price column p
ClaimedAvg(p, i) ==
    IF i >= 4 /\ \A j \in (i - 3)..i : ~IsNull(p[j])
      THEN Rat(p[i - 3].n + p[i - 2].n + p[i - 1].n + p[i].n, 4)
      ELSE None

\* C8: in the output, 4wk_avg[i] is the mean of the prices of rows i-3..i
\* when there are four and none is null, and null otherwise; a table of
\* fewer than 4 rows has no 4wk_avg value.
C8_RollingMeanOfFour ==
    Returned =>
        \A f \in FuelSet : \A i \in 1..Out.n :
            /\ Out.data[PriceCol(f)][i].d = 1
            /\ Out.data[DerivedCol(f, "_4wk_avg")][i] = ClaimedAvg(Out.data[PriceCol(f)], i)

C8_Witness ==
    /\ Returned /\ Out.n >= 4
    /\ df.data["date"][1] # StrDate(1)
    /\ Out.data["ron95_4wk_avg"][4].k = "num"
    /\ Out.data["ron95_4wk_avg"][4].d = 4
    /\ Out.data["ron95_4wk_avg"][3] = None

\* C9: format_column_names_to_snake_case is idempotent: once it has run,
\* running it again leaves every column name as it is.
C9_SnakeCaseIdempotent == [][applied >= 1 => names' = names]_vars

C9_Witness ==
    /\ applied = 2
    /\ names[1] = <<"a", "_", "b">>
    /\ names[2] = <<"r", "e", "t", "a", "i", "l", "_", "p", "r", "i", "c", "e">>
    /\ names[3] = <<"r", "o", "n", "9", "5", "_", "p", "r", "i", "c", "e">>

AllFailed(os) == \A i \in 1..Len(os) : os[i] \in RequestErrors

====
